---- MODULE Spec2Model ----
(***************************************************************************)
(* A model of doris::vectorized::VectorizedFnCall                          *)
(* (be/src/vec/exprs/vectorized_fn_call.cpp): one function-call node of    *)
(* the expression tree, its binding (prepare), its lifecycle (open, close),*)
(* its execution (execute, execute_runtime_filter) and its queries         *)
(* (estimate_memory, evaluate_inverted_index, can_push_down_to_index,      *)
(* equals).                                                                *)
(*                                                                         *)
(* The node's own fields are the record `self`; the surrounding            *)
(* VExprContext is `ctx`; `env` is the be config and the build; `last`     *)
(* records what the most recent call did and returned; `alive` is false    *)
(* once an assertion or a null dereference ended the process; `other` is   *)
(* the expression equals is handed. Collaborators whose code is outside    *)
(* the file (children, function factories, the bound function, the block   *)
(* checks) are inputs drawn with \E.                                       *)
(***************************************************************************)
EXTENDS Integers, Sequences, FiniteSets, TLC

VARIABLES self, ctx, env, alive, last, other

vars == <<self, ctx, env, alive, last, other>>

\* ------------------------------------------------------------------ bounds
MaxChildren == 2
MaxBlockCols == 1
\* size_t is modelled SizeBits wide (64 in the build).
SizeBits == 12

\* ------------------------------------------------------------- small helpers
NULL == "nullptr"
OK == "OK"

Range(s) == {s[i] : i \in 1..Len(s)}

\* All sequences over S of length 0..n.
RECURSIVE SeqsUpTo(_, _)
SeqsUpTo(S, n) ==
    IF n = 0 THEN {<<>>}
    ELSE LET shorter == SeqsUpTo(S, n - 1)
         IN  shorter \cup {Append(s, x) : s \in {t \in shorter : Len(t) = n - 1}, x \in S}

\* --------------------------------------------------------- names and suffix
\* Strings that are inspected character by character are tuples of characters.
AGG_STATE_SUFFIX == <<"_", "s", "t", "a", "t", "e">>

NAME_ADD == <<"a", "d", "d">>
NAME_SUM == <<"s", "u", "m">>
NAME_SUM_STATE == <<"s", "u", "m", "_", "s", "t", "a", "t", "e">>
NAME_SUMSTATE == <<"s", "u", "m", "s", "t", "a", "t", "e">>
NAME_STATE_SUM == <<"_", "s", "t", "a", "t", "e", "s", "u", "m">>
NAME_SUFFIX_ONLY == AGG_STATE_SUFFIX
NAME_TATE == <<"t", "a", "t", "e">>

\* common/utils.h match_suffix: the string ends with the suffix.
match_suffix(str, suffix) ==
    /\ Len(str) >= Len(suffix)
    /\ SubSeq(str, Len(str) - Len(suffix) + 1, Len(str)) = suffix

\* ------------------------------------------------- the node as constructed
BinaryTypes == {"NATIVE", "RPC", "JAVA_UDF", "AGG_STATE"}
PrimitiveTypes == {"TYPE_INT", "TYPE_AGG_STATE"}
ChildKinds == {"slot_ref", "expr"}

\* TFunction descriptors (_fn) paired with the declared return type
\* (_data_type) and the be config (enable_java_support) the node is prepared
\* under.
TypeInt == [nullable |-> FALSE, primitive_type |-> "TYPE_INT"]
TypeAggState == [nullable |-> FALSE, primitive_type |-> "TYPE_AGG_STATE"]

AggNames == {NAME_SUM_STATE, NAME_SUM, NAME_SUMSTATE, NAME_STATE_SUM,
             NAME_SUFFIX_ONLY, NAME_TATE}

Fn(b, name, udtf, dict) ==
    [binary_type |-> b, function_name |-> name, is_udtf_function |-> udtf,
     dict_isset |-> dict]

\* Every backend kind; for JAVA_UDF both settings of the config flag, for
\* AGG_STATE every combination of name shape, nullability and primitive type.
Descriptors ==
    {[fn |-> Fn(b, NAME_ADD, FALSE, d), data_type |-> TypeInt, java |-> TRUE] :
        b \in {"NATIVE", "RPC"}, d \in BOOLEAN}
    \cup
    {[fn |-> Fn("JAVA_UDF", NAME_ADD, u, TRUE), data_type |-> TypeInt, java |-> j] :
        u \in BOOLEAN, j \in BOOLEAN}
    \cup
    {[fn |-> Fn("AGG_STATE", n, FALSE, FALSE),
      data_type |-> [nullable |-> nl, primitive_type |-> p], java |-> FALSE] :
        n \in AggNames, nl \in BOOLEAN, p \in PrimitiveTypes}

\* The descriptors the lifecycle and execution are explored under: a native
\* function with and without a dictionary hook, a state-merge function, and
\* a state-merge function that cannot be bound.
ExecDescriptors ==
    {[fn |-> Fn("NATIVE", NAME_ADD, FALSE, d), data_type |-> TypeInt, java |-> TRUE] :
        d \in BOOLEAN}
    \cup
    {[fn |-> Fn("AGG_STATE", n, FALSE, FALSE), data_type |-> TypeAggState,
      java |-> TRUE] : n \in {NAME_SUM_STATE, NAME_SUM}}

\* fmt::format("VectorizedFnCall[{}](arguments={},return={})", ...) line 73.
ExprName(fn, children, data_type) ==
    <<"VectorizedFnCall", fn.function_name, children, data_type>>

\* ------------------------------------------------------- the record of a call
\* What the most recent call did, as its caller and its collaborators saw it.
NoCall ==
    [op |-> "none", status |-> OK, path |-> "none", scope |-> "none",
     noop |-> FALSE,
     log |-> <<>>,               \* steps of the call, in order
     fn_calls |-> <<>>,          \* invocations of _function->execute
     block_in |-> <<>>, block |-> <<>>,
     args_in |-> <<>>, args |-> <<>>,
     result_column_id |-> -1,
     result |-> FALSE,           \* what a query returned
     rows |-> 0, size |-> 0,     \* estimate_memory: its argument, its result
     routine |-> "none",         \* what the function's index routine returned
     flag |-> FALSE,             \* the function's can_push_down_to_index
     child_eq |-> <<>>]          \* what the children's equals returned

\* ---------------------------------------------------------------- prepare
\* RETURN_IF_ERROR_OR_PREPARED (vexpr.h): the idempotent guard of prepare,
\* "re-entry when already prepared is a no-op success".
ALREADY_PREPARED(n) == n._prepare_finished

\* lines 75-76: the RPC branch.
bind_rpc(made) ==
    [status |-> OK, assigned |-> TRUE,
     function |-> IF made THEN "FunctionRPC" ELSE NULL]

\* Mutant: the config flag is not consulted.
bind_java_udf_unconfigured(fn, enable_java_support, made) ==
    IF fn.is_udtf_function
    THEN [status |-> OK, assigned |-> TRUE,
          function |-> IF made THEN "FunctionFake" ELSE NULL]
    ELSE [status |-> OK, assigned |-> TRUE,
          function |-> IF made THEN "JavaFunctionCall" ELSE NULL]

\* lines 77-91: the JAVA_UDF branch.
bind_java_udf(fn, enable_java_support, made) ==
    IF enable_java_support
    THEN IF fn.is_udtf_function
         THEN [status |-> OK, assigned |-> TRUE,
               function |-> IF made THEN "FunctionFake" ELSE NULL]
         ELSE [status |-> OK, assigned |-> TRUE,
               function |-> IF made THEN "JavaFunctionCall" ELSE NULL]
    ELSE [status |-> "Java UDF is not enabled", assigned |-> FALSE, function |-> NULL]

\* Mutant: the nullability of the return type is not checked.
bind_agg_state_nullable(fn, data_type, made) ==
    IF match_suffix(fn.function_name, AGG_STATE_SUFFIX)
    THEN IF data_type.primitive_type # "TYPE_AGG_STATE"
         THEN [status |-> "State function's return type must be agg_state",
               assigned |-> FALSE, function |-> NULL]
         ELSE [status |-> OK, assigned |-> TRUE,
               function |-> IF made THEN "FunctionAggState" ELSE NULL]
    ELSE [status |-> "Function is not endwith '_state'",
          assigned |-> FALSE, function |-> NULL]

\* Mutant: the name is not checked for the suffix.
bind_agg_state_unsuffixed(fn, data_type, made) ==
    IF data_type.nullable
    THEN [status |-> "State function's return type must be not nullable",
          assigned |-> FALSE, function |-> NULL]
    ELSE IF data_type.primitive_type # "TYPE_AGG_STATE"
    THEN [status |-> "State function's return type must be agg_state",
          assigned |-> FALSE, function |-> NULL]
    ELSE [status |-> OK, assigned |-> TRUE,
          function |-> IF made THEN "FunctionAggState" ELSE NULL]

\* lines 92-112: the AGG_STATE branch.
bind_agg_state(fn, data_type, made) ==
    IF match_suffix(fn.function_name, AGG_STATE_SUFFIX)
    THEN IF data_type.nullable
         THEN [status |-> "State function's return type must be not nullable",
               assigned |-> FALSE, function |-> NULL]
         ELSE IF data_type.primitive_type # "TYPE_AGG_STATE"
         THEN [status |-> "State function's return type must be agg_state",
               assigned |-> FALSE, function |-> NULL]
         ELSE [status |-> OK, assigned |-> TRUE,
               function |-> IF made THEN "FunctionAggState" ELSE NULL]
    ELSE [status |-> "Function is not endwith '_state'",
          assigned |-> FALSE, function |-> NULL]

\* lines 113-118: the native registry lookup.
bind_native(made) ==
    [status |-> OK, assigned |-> TRUE,
     function |-> IF made THEN "SimpleFunction" ELSE NULL]

\* lines 75-118: dispatch on _fn.binary_type.
bind_function(fn, data_type, enable_java_support, made) ==
    CASE fn.binary_type = "RPC" -> bind_rpc(made)
      [] fn.binary_type = "JAVA_UDF" -> bind_java_udf(fn, enable_java_support, made)
      [] fn.binary_type = "AGG_STATE" -> bind_agg_state(fn, data_type, made)
      [] OTHER -> bind_native(made)

\* Mutant: the check is missing.
function_missing_unchecked(function) == FALSE

\* line 119: the uniform check that some branch bound an executable.
function_missing(function) == function = NULL

\* VExpr::register_function_context: a new FunctionContext is appended to the
\* context and its (zero-based) index is the node's _fn_context_index.
NewFunctionContext == [dict_function |-> NULL, dict_sets |-> 0, state |-> "created"]

register_function_context(c) ==
    [ctx |-> [c EXCEPT !.fn_contexts = Append(@, NewFunctionContext)],
     index |-> Len(c.fn_contexts)]

\* lines 128-131: install the dictionary hook into the node's slot.
set_dict_function(c, index, fn) ==
    IF fn.dict_isset
    THEN [c EXCEPT !.fn_contexts[index + 1] =
              [@ EXCEPT !.dict_function = "dict_function", !.dict_sets = @ + 1]]
    ELSE c

\* Mutant: the node is not marked prepared.
finish_prepare_unmarked(n, c) ==
    LET reg == register_function_context(c)
    IN  [self |-> [n EXCEPT !._fn_context_index = reg.index,
                            !._function_name = n._fn.function_name],
         ctx |-> set_dict_function(reg.ctx, reg.index, n._fn),
         status |-> OK, noop |-> FALSE]

\* lines 124-132: what a prepare that bound a function does before it returns.
finish_prepare(n, c) ==
    LET reg == register_function_context(c)
    IN  [self |-> [n EXCEPT !._fn_context_index = reg.index,
                            !._function_name = n._fn.function_name,
                            !._prepare_finished = TRUE],
         ctx |-> set_dict_function(reg.ctx, reg.index, n._fn),
         status |-> OK, noop |-> FALSE]

\* lines 59-132: prepare of a node that is not prepared yet.  base_ok:
\* VExpr::prepare (the children's prepare) succeeded; made: the factory or
\* registry of the branch taken returned an executable.
prepare_node(n, c, e, base_ok, made) ==
    IF ~base_ok
    THEN [self |-> n, ctx |-> c, status |-> "child prepare failed", noop |-> FALSE]
    ELSE
      LET named == [n EXCEPT !._expr_name = ExprName(n._fn, n._children, n._data_type)]
          b == bind_function(n._fn, n._data_type, e.enable_java_support, made)
          bound == IF b.assigned THEN [named EXCEPT !._function = b.function] ELSE named
      IN  IF b.status # OK
          THEN [self |-> bound, ctx |-> c, status |-> b.status, noop |-> FALSE]
          ELSE IF function_missing(bound._function)
          THEN [self |-> bound, ctx |-> c, status |-> "Could not find function",
                noop |-> FALSE]
          ELSE finish_prepare(bound, c)

\* Mutant: prepare without its guard.
prepare_unguarded(n, c, e, base_ok, made) == prepare_node(n, c, e, base_ok, made)

\* lines 57-133: VectorizedFnCall::prepare.
prepare(n, c, e, base_ok, made) ==
    IF ALREADY_PREPARED(n)
    THEN [self |-> n, ctx |-> c, status |-> OK, noop |-> TRUE]
    ELSE prepare_node(n, c, e, base_ok, made)

\* ---------------------------------------------------------------- execute
\* A block is the sequence of its columns; column indices are zero-based, so
\* column k of the block is element k + 1 of the sequence.
InputBlocks == SeqsUpTo({<<"input">>}, MaxBlockCols)
ConstValues == {"v1", "v2"}

\* VExpr::is_const_and_have_executed.
is_const_and_have_executed(n) == n.is_constant /\ n._constant_col # NULL

\* VExpr::get_result_from_const: the cached constant column is appended to
\* the block and its index is the result.
get_result_from_const(n, block) ==
    [block |-> Append(block, n._constant_col), result_column_id |-> Len(block)]

\* VExpr::fast_execute, when it reports success: the precomputed result
\* column is appended to the block and its index is the result.
fast_execute(block) ==
    [block |-> Append(block, <<"fast">>), result_column_id |-> Len(block)]

\* Mutant: the buffer only grows; a longer one keeps its length.
resize_grow_only(args, size) ==
    IF Len(args) >= size THEN args
    ELSE [k \in 1..size |-> IF k <= Len(args) THEN args[k] ELSE 0]

\* std::vector::resize: keeps the leading elements, value-initializes the rest.
resize(args, size) ==
    [k \in 1..size |-> IF k <= Len(args) THEN args[k] ELSE 0]

\* A child's execute (external): an expression child appends the column it
\* computed, a slot reference returns the position of an existing column.
child_execute(kind, i, block, ok) ==
    IF ~ok \/ (kind = "slot_ref" /\ block = <<>>)
    THEN [status |-> "child execute failed", block |-> block, column_id |-> -1]
    ELSE IF kind = "slot_ref"
    THEN [status |-> OK, block |-> block, column_id |-> 0]
    ELSE [status |-> OK, block |-> Append(block, <<"child", i>>),
          column_id |-> Len(block)]

\* Mutant: a child's error is dropped and the loop goes on.
RECURSIVE execute_children_unchecked(_, _, _, _, _, _)
execute_children_unchecked(n, i, block, args, log, inp) ==
    IF i > Len(n._children)
    THEN [status |-> OK, block |-> block, args |-> args, log |-> log]
    ELSE LET r == child_execute(n._children[i], i, block, inp.kid_ok[i])
         IN  execute_children_unchecked(n, i + 1, r.block,
                                        [args EXCEPT ![i] = r.column_id],
                                        Append(log, <<"child", i, r.status = OK>>), inp)

\* lines 189-193: the loop over the children, from child i on.
RECURSIVE execute_children(_, _, _, _, _, _)
execute_children(n, i, block, args, log, inp) ==
    IF i > Len(n._children)
    THEN [status |-> OK, block |-> block, args |-> args, log |-> log]
    ELSE LET r == child_execute(n._children[i], i, block, inp.kid_ok[i])
             log1 == Append(log, <<"child", i, r.status = OK>>)
         IN  IF r.status # OK
             THEN [status |-> r.status, block |-> r.block, args |-> args, log |-> log1]
             ELSE execute_children(n, i + 1, r.block,
                                   [args EXCEPT ![i] = r.column_id], log1, inp)

\* Mutant: the error is forced whatever the first child is.
must_in_slow_path_any_child(n, inp) ==
    /\ inp.debug = "unlisted"
    /\ n._children # <<>>

\* lines 168-185: the must_in_slow_path debug point.  TRUE when it forces
\* the error.
must_in_slow_path_fails(n, inp) ==
    /\ inp.debug = "unlisted"
    /\ n._children # <<>>
    /\ n._children[1] = "slot_ref"

\* line 168: the must_in_slow_path debug point is switched on, so its body
\* (and its get_child(0)) runs.
must_in_slow_path_active(inp) == inp.debug \in {"listed", "unlisted"}

\* line 186: DCHECK(_open_finished || _getting_const_col); compiled only
\* into a debug build.
dcheck_open_fails(n, e) ==
    /\ e.build = "debug"
    /\ ~(n._open_finished \/ n._getting_const_col)

\* line 210: _function->execute(...) populates the result column in place.
function_execute(block, result, ok) ==
    IF ok THEN [block EXCEPT ![result + 1] = <<"result", "filled">>] ELSE block

\* Mutant: the column count is taken after the result column is inserted.
columns_with_result(block) == Len(block) + 1

\* line 197: num_columns_without_result = block->columns(), taken before the
\* result column is inserted.
columns_without_result(block) == Len(block)

\* Mutant: the caller's result index is written before the function is called.
written_result_early(fn_ok, result_in, num) == num

\* lines 210-212: *result_column_id is assigned after _function->execute
\* has returned OK, and not when it returned an error.
written_result(fn_ok, result_in, num) == IF fn_ok THEN num ELSE result_in

\* lines 195-214: the rest of the general path once the children have run.
call_function(n, block, args, log, result_in, inp) ==
    LET num_columns_without_result == columns_without_result(block)
        inserted == Append(block, <<"result", "empty">>)
        log1 == IF inp.debug = "wait"
                THEN log \o <<<<"check_constant">>, <<"insert">>, <<"sleep">>,
                              <<"function">>>>
                ELSE log \o <<<<"check_constant">>, <<"insert">>, <<"function">>>>
        call == [fn_context_index |-> n._fn_context_index, args |-> args,
                 result |-> num_columns_without_result]
        done == function_execute(inserted, num_columns_without_result, inp.fn_ok)
    IN  IF ~inp.const_ok
        THEN [status |-> "const check failed", abort |-> FALSE, path |-> "general",
              block |-> block, args |-> args, result_column_id |-> result_in,
              log |-> Append(log, <<"check_constant">>), fn_calls |-> <<>>]
        ELSE IF n._function = NULL \/ n._fn_context_index = -1
        THEN \* a call through a null _function: the process dies
             [status |-> "SIGSEGV", abort |-> TRUE, path |-> "general",
              block |-> inserted, args |-> args, result_column_id |-> result_in,
              log |-> log1, fn_calls |-> <<>>]
        ELSE IF ~inp.fn_ok
        THEN [status |-> "function execute failed", abort |-> FALSE, path |-> "general",
              block |-> done, args |-> args,
              result_column_id |-> written_result(FALSE, result_in,
                                                  num_columns_without_result),
              log |-> log1, fn_calls |-> <<call>>]
        ELSE [status |-> IF inp.type_ok THEN OK ELSE "check_type_and_column failed",
              abort |-> FALSE, path |-> "general",
              block |-> done, args |-> args,
              result_column_id |-> written_result(TRUE, result_in,
                                                  num_columns_without_result),
              log |-> log1 \o <<<<"write_result">>, <<"check_type">>>>,
              fn_calls |-> <<call>>]

\* lines 188-214: the general path.
general_path(n, block, args_in, log, result_in, inp) ==
    LET args == resize(args_in, Len(n._children))
        kids_run == execute_children(n, 1, block, args, log, inp)
    IN  IF kids_run.status # OK
        THEN [status |-> kids_run.status, abort |-> FALSE, path |-> "general",
              block |-> kids_run.block, args |-> kids_run.args,
              result_column_id |-> result_in, log |-> kids_run.log,
              fn_calls |-> <<>>]
        ELSE call_function(n, kids_run.block, kids_run.args, kids_run.log,
                           result_in, inp)

\* lines 165-214: _do_execute of a node without a cached constant.
execute_per_block(n, e, block, result_in, args_in, inp) ==
    IF inp.fast
    THEN LET r == fast_execute(block)
         IN  [status |-> OK, abort |-> FALSE, path |-> "fast",
              block |-> r.block, args |-> args_in,
              result_column_id |-> r.result_column_id,
              log |-> <<<<"fast">>>>, fn_calls |-> <<>>]
    ELSE IF must_in_slow_path_active(inp) /\ n._children = <<>>
    THEN \* get_child(0) of a node without children, under the debug point
         [status |-> "SIGSEGV", abort |-> TRUE, path |-> "debug",
          block |-> block, args |-> args_in, result_column_id |-> result_in,
          log |-> <<<<"debug">>>>, fn_calls |-> <<>>]
    ELSE IF must_in_slow_path_fails(n, inp)
    THEN [status |-> "column should in slow path", abort |-> FALSE, path |-> "debug",
          block |-> block, args |-> args_in, result_column_id |-> result_in,
          log |-> <<<<"debug">>>>, fn_calls |-> <<>>]
    ELSE IF dcheck_open_fails(n, e)
    THEN [status |-> "DCHECK", abort |-> TRUE, path |-> "dcheck",
          block |-> block, args |-> args_in, result_column_id |-> result_in,
          log |-> <<<<"dcheck">>>>, fn_calls |-> <<>>]
    ELSE general_path(n, block, args_in,
                      IF must_in_slow_path_active(inp) THEN <<<<"debug">>>> ELSE <<>>,
                      result_in, inp)

\* Mutant: the cached constant is not consulted.
_do_execute_uncached(n, e, block, result_in, args_in, inp) ==
    execute_per_block(n, e, block, result_in, args_in, inp)

\* lines 159-215: VectorizedFnCall::_do_execute.
_do_execute(n, e, block, result_in, args_in, inp) ==
    IF is_const_and_have_executed(n)
    THEN LET r == get_result_from_const(n, block)
         IN  [status |-> OK, abort |-> FALSE, path |-> "const",
              block |-> r.block, args |-> args_in,
              result_column_id |-> r.result_column_id,
              log |-> <<<<"const">>>>, fn_calls |-> <<>>]
    ELSE execute_per_block(n, e, block, result_in, args_in, inp)

\* lines 235-239: VectorizedFnCall::execute_runtime_filter, over the caller's
\* argument buffer.
execute_runtime_filter(n, e, block, result_in, args, inp) ==
    _do_execute(n, e, block, result_in, args, inp)

\* lines 241-245: VectorizedFnCall::execute, over a fresh argument buffer.
execute(n, e, block, result_in, inp) ==
    LET arguments == <<>>
    IN  _do_execute(n, e, block, result_in, arguments, inp)

\* The argument buffer a caller of execute_runtime_filter hands in: one left
\* over from a node with more children.
ArgBuffers == {[k \in 1..(MaxChildren + 1) |-> 9]}

\* The collaborators' outcomes during one _do_execute of a node with nk
\* children: the step that fails, if any, and the ones before it succeed.
AllOk(nk) ==
    [fast |-> FALSE, debug |-> "off", kid_ok |-> [i \in 1..nk |-> TRUE],
     const_ok |-> TRUE, fn_ok |-> TRUE, type_ok |-> TRUE]

ExecInputs(nk) ==
    {[AllOk(nk) EXCEPT !.fast = TRUE]}
    \cup {[AllOk(nk) EXCEPT !.debug = d] : d \in {"off", "listed", "unlisted", "wait"}}
    \cup {[AllOk(nk) EXCEPT !.kid_ok[i] = FALSE] : i \in 1..nk}
    \cup {[AllOk(nk) EXCEPT !.const_ok = FALSE],
          [AllOk(nk) EXCEPT !.fn_ok = FALSE],
          [AllOk(nk) EXCEPT !.type_ok = FALSE]}

\* ------------------------------------------------------------ open and close
Scopes == {"FRAGMENT_LOCAL", "THREAD_LOCAL"}

\* Mutant: a child's failure to open is ignored.
RECURSIVE open_children_unchecked(_, _, _, _)
open_children_unchecked(n, i, log, fail_at) ==
    IF i > Len(n._children)
    THEN [status |-> OK, log |-> log]
    ELSE open_children_unchecked(n, i + 1,
                                 Append(log, <<"open_child", i, i # fail_at>>), fail_at)

\* lines 138-140: the loop that opens the children (external), from child i
\* on.  fail_at is the child whose open fails (0: none).
RECURSIVE open_children(_, _, _, _)
open_children(n, i, log, fail_at) ==
    IF i > Len(n._children)
    THEN [status |-> OK, log |-> log]
    ELSE IF i = fail_at
    THEN [status |-> "child open failed",
          log |-> Append(log, <<"open_child", i, FALSE>>)]
    ELSE open_children(n, i + 1, Append(log, <<"open_child", i, TRUE>>), fail_at)

\* VExpr::init_function_context: opens the bound function's state in the
\* node's slot of the context.
init_function_context(c, index) ==
    [c EXCEPT !.fn_contexts[index + 1].state = "open"]

\* VExpr::get_const_col(context, nullptr): a constant node without a cached
\* column executes itself once on a one-row block and caches the result.
get_const_col(n, e, oi) ==
    IF ~n.is_constant \/ n._constant_col # NULL
    THEN [status |-> OK, abort |-> FALSE, self |-> n, log |-> <<>>, fn_calls |-> <<>>]
    ELSE LET r == _do_execute([n EXCEPT !._getting_const_col = TRUE], e,
                              <<<<"one_row">>>>, -1, <<>>, oi.exec)
         IN  [status |-> r.status, abort |-> r.abort,
              self |-> IF r.status = OK
                       THEN [n EXCEPT !._constant_col = <<"const", oi.value>>]
                       ELSE n,
              log |-> r.log, fn_calls |-> r.fn_calls]

\* line 137: DCHECK(_prepare_finished); compiled only into a debug build.
dcheck_prepared_fails(n, e) == e.build = "debug" /\ ~n._prepare_finished

\* line 145: the node is marked opened.
mark_opened(n) == [n EXCEPT !._open_finished = TRUE]

\* Mutant: the constant column is materialized whatever the scope.
needs_const_col_always(scope) == TRUE

\* line 142: only a FRAGMENT_LOCAL open goes on to get_const_col.
needs_const_col(scope) == scope = "FRAGMENT_LOCAL"

\* lines 141-146: open once the children are open.
open_self(n, c, e, scope, log, oi) ==
    IF n._function = NULL \/ n._fn_context_index = -1
    THEN \* fn_context(-1) and a null _function: the process dies
         [status |-> "SIGSEGV", abort |-> TRUE, self |-> n, ctx |-> c,
          log |-> Append(log, <<"init_function_context">>), fn_calls |-> <<>>]
    ELSE IF ~oi.init_ok
    THEN [status |-> "init_function_context failed", abort |-> FALSE,
          self |-> n, ctx |-> c,
          log |-> Append(log, <<"init_function_context">>), fn_calls |-> <<>>]
    ELSE LET c1 == init_function_context(c, n._fn_context_index)
             log1 == Append(log, <<"init_function_context">>)
         IN  IF needs_const_col(scope)
             THEN LET g == get_const_col(n, e, oi)
                  IN  [status |-> g.status, abort |-> g.abort,
                       self |-> IF g.status = OK THEN mark_opened(g.self) ELSE g.self,
                       ctx |-> c1,
                       log |-> Append(log1, <<"get_const_col">>) \o g.log,
                       fn_calls |-> g.fn_calls]
             ELSE [status |-> OK, abort |-> FALSE, self |-> mark_opened(n),
                   ctx |-> c1, log |-> log1, fn_calls |-> <<>>]

\* lines 135-147: VectorizedFnCall::open.
open(n, c, e, scope, oi) ==
    IF dcheck_prepared_fails(n, e)
    THEN [status |-> "DCHECK", abort |-> TRUE, self |-> n, ctx |-> c,
          log |-> <<<<"dcheck">>>>, fn_calls |-> <<>>]
    ELSE LET o == open_children(n, 1, <<>>, oi.kid_fail)
         IN  IF o.status # OK
             THEN [status |-> o.status, abort |-> FALSE, self |-> n, ctx |-> c,
                   log |-> o.log, fn_calls |-> <<>>]
             ELSE open_self(n, c, e, scope, o.log, oi)

\* The collaborators' outcomes during one open.
OpenInputs(nk) ==
    {[kid_fail |-> i, init_ok |-> TRUE, exec |-> AllOk(nk), value |-> "v1"] : i \in 1..nk}
    \cup {[kid_fail |-> 0, init_ok |-> FALSE, exec |-> AllOk(nk), value |-> "v1"]}
    \cup {[kid_fail |-> 0, init_ok |-> TRUE, exec |-> x, value |-> "v1"] :
             x \in ExecInputs(nk)}
    \cup {[kid_fail |-> 0, init_ok |-> TRUE, exec |-> AllOk(nk), value |-> v] :
             v \in ConstValues}

\* VExpr::close_function_context: releases the function's state of the slot.
close_function_context(n, c) ==
    IF n._fn_context_index # -1
    THEN [c EXCEPT !.fn_contexts[n._fn_context_index + 1].state = "closed"]
    ELSE c

\* VExpr::close: closes every child (external), in order.
close_children(n) == [i \in 1..Len(n._children) |-> <<"close_child", i>>]

\* Mutant: the children are closed before the function's state is released.
close_children_first(n, c) ==
    [self |-> n, ctx |-> close_function_context(n, c),
     log |-> close_children(n) \o <<<<"close_function_context">>>>]

\* lines 149-152: VectorizedFnCall::close.
close(n, c) ==
    [self |-> n, ctx |-> close_function_context(n, c),
     log |-> <<<<"close_function_context">>>> \o close_children(n)]

\* -------------------------------------------------------- estimate_memory
\* size_t arithmetic wraps around.
SizeModulus == 2 ^ SizeBits

\* line 230: the per-value size assumed for a type without a maximum size.
ESTIMATED_VALUE_SIZE == 512

\* Row counts, up to the first one whose fallback estimate wraps around.
RowCounts ==
    {0, 1, 2, SizeModulus \div ESTIMATED_VALUE_SIZE - 1,
     SizeModulus \div ESTIMATED_VALUE_SIZE}

\* IDataType::have_maximum_size_of_value (external): fixed-width types.
have_maximum_size_of_value(data_type) == data_type.primitive_type = "TYPE_INT"

\* IDataType::get_size_of_value_in_memory (external): sizeof(Int32).
get_size_of_value_in_memory(data_type) == 4

\* A child's estimate_memory (external), monotonic in rows: a slot reference
\* computes nothing, an expression child one byte per row.
child_estimate_memory(kind, rows) == IF kind = "slot_ref" THEN 0 ELSE rows

\* lines 222-225: the sum of the children's estimates, from child i on.
RECURSIVE children_estimate(_, _, _, _)
children_estimate(n, i, rows, estimate_size) ==
    IF i > Len(n._children)
    THEN estimate_size
    ELSE children_estimate(n, i + 1, rows,
             (estimate_size + child_estimate_memory(n._children[i], rows))
                 % SizeModulus)

\* lines 227-231: the node's own result column.
own_estimate(n, rows) ==
    IF have_maximum_size_of_value(n._data_type)
    THEN (rows * get_size_of_value_in_memory(n._data_type)) % SizeModulus
    ELSE (rows * ESTIMATED_VALUE_SIZE) % SizeModulus

\* Mutant: the estimate runs the children to measure them.
estimate_memory_measured(n, rows) ==
    [self |-> n,
     size |-> (children_estimate(n, 1, rows, 0) + own_estimate(n, rows)) % SizeModulus,
     log |-> [i \in 1..Len(n._children) |-> <<"child", i, TRUE>>]]

\* lines 217-233: VectorizedFnCall::estimate_memory (not a const member):
\* the node it leaves, the size it returns, the calls it makes.
estimate_memory(n, rows) ==
    IF is_const_and_have_executed(n)
    THEN [self |-> n, size |-> 0, log |-> <<>>]
    ELSE [self |-> n,
          size |-> (children_estimate(n, 1, rows, 0) + own_estimate(n, rows))
                       % SizeModulus,
          log |-> [i \in 1..Len(n._children) |-> <<"estimate_child", i>>]]

\* ---------------------------------------------------------- index pushdown
\* line 155: DCHECK_GE(get_num_children(), 1); compiled only into a debug
\* build.
dcheck_children_fails(n, e) == e.build = "debug" /\ Len(n._children) < 1

\* What the bound function's index-evaluation routine may return (external).
RoutineResults == {OK, "index evaluation failed"}

\* VExpr::_evaluate_inverted_index(context, _function, segment_num_rows):
\* hands the call to the function's own routine.
_evaluate_inverted_index(n, routine) ==
    IF n._function = NULL
    THEN [status |-> "SIGSEGV", abort |-> TRUE, log |-> <<>>]
    ELSE [status |-> routine, abort |-> FALSE,
          log |-> <<<<"function_evaluate_inverted_index">>>>]

\* lines 154-157: VectorizedFnCall::evaluate_inverted_index.
evaluate_inverted_index(n, e, routine) ==
    IF dcheck_children_fails(n, e)
    THEN [status |-> "DCHECK", abort |-> TRUE, log |-> <<<<"dcheck">>>>]
    ELSE _evaluate_inverted_index(n, routine)

\* lines 279-281: VectorizedFnCall::can_push_down_to_index; a call through
\* a null _function ends the process.
can_push_down_to_index(n, flag) ==
    IF n._function = NULL
    THEN [status |-> "SIGSEGV", abort |-> TRUE, result |-> FALSE]
    ELSE [status |-> OK, abort |-> FALSE, result |-> flag]

\* ------------------------------------------------------------------ equals
\* The expression handed to equals: another call node, or a node of another
\* class (a literal).
CallNode(n) == [class |-> "VectorizedFnCall", node |-> n]
Literal == [class |-> "VLiteral", node |-> NULL]

\* What the children's own equals may return (external): children of
\* different classes are never equal.
ChildEquals(n, o) ==
    IF o.class = "VectorizedFnCall" /\ Len(o.node._children) = Len(n._children)
    THEN {ce \in [1..Len(n._children) -> BOOLEAN] :
            \A i \in 1..Len(n._children) :
                n._children[i] # o.node._children[i] => ~ce[i]}
    ELSE {[i \in 1..Len(n._children) |-> FALSE]}

\* lines 283-300: VectorizedFnCall::equals.
equals(n, o, child_eq) ==
    IF o.class # "VectorizedFnCall"
    THEN FALSE
    ELSE IF n._function_name # o.node._function_name
    THEN FALSE
    ELSE IF Len(n._children) # Len(o.node._children)
    THEN FALSE
    ELSE \A i \in 1..Len(n._children) : child_eq[i]

\* ------------------------------------------------------------------- Init
\* line 55: the node as its constructor leaves it.
NewNode(d, ch, k) ==
    [_fn |-> d.fn, _data_type |-> d.data_type, _children |-> ch,
     is_constant |-> k,
     _function |-> NULL, _expr_name |-> <<>>, _function_name |-> <<>>,
     _prepare_finished |-> FALSE, _open_finished |-> FALSE,
     _fn_context_index |-> -1,
     _constant_col |-> NULL, _getting_const_col |-> FALSE]

InitWith(descriptors, child_lists) ==
    /\ \E d \in descriptors, ch \in child_lists, k \in BOOLEAN,
          b \in {"debug", "release"} :
         \* a node over a slot reference is not constant
         /\ k => "slot_ref" \notin Range(ch)
         /\ self = NewNode(d, ch, k)
         /\ env = [enable_java_support |-> d.java, build |-> b]
    /\ ctx = [fn_contexts |-> <<>>]
    /\ alive = TRUE
    /\ last = NoCall
    /\ other = Literal

Init == InitWith(ExecDescriptors, SeqsUpTo(ChildKinds, MaxChildren))

\* Binding: every descriptor, over nodes with at most one child.
InitBind == InitWith(Descriptors, {<<>>, <<"expr">>, <<"slot_ref">>})

\* ---------------------------------------------------------------- actions
Prepare ==
    /\ alive
    /\ \E base_ok \in BOOLEAN, made \in BOOLEAN :
         LET r == prepare(self, ctx, env, base_ok, made)
         IN  /\ self' = r.self
             /\ ctx' = r.ctx
             /\ last' = [NoCall EXCEPT !.op = "prepare", !.status = r.status,
                                       !.noop = r.noop]
    /\ UNCHANGED <<env, alive, other>>

Open ==
    /\ alive
    /\ \E scope \in Scopes, oi \in OpenInputs(Len(self._children)) :
         LET r == open(self, ctx, env, scope, oi)
         IN  /\ self' = r.self
             /\ ctx' = r.ctx
             /\ alive' = ~r.abort
             /\ last' = [NoCall EXCEPT !.op = "open", !.status = r.status,
                                       !.scope = scope, !.log = r.log,
                                       !.fn_calls = r.fn_calls]
    /\ UNCHANGED <<env, other>>

Close ==
    /\ alive
    /\ \E scope \in Scopes :
         LET r == close(self, ctx)
         IN  /\ self' = r.self
             /\ ctx' = r.ctx
             /\ last' = [NoCall EXCEPT !.op = "close", !.scope = scope,
                                       !.noop = (r.self = self /\ r.ctx = ctx),
                                       !.log = r.log]
    /\ UNCHANGED <<env, alive, other>>

\* What execute and execute_runtime_filter leave behind for their caller.
Returned(op, r, block_in, args_in) ==
    [NoCall EXCEPT !.op = op, !.status = r.status, !.path = r.path,
                   !.log = r.log, !.fn_calls = r.fn_calls,
                   !.block_in = block_in, !.block = r.block,
                   !.args_in = args_in, !.args = r.args,
                   !.result_column_id = r.result_column_id]

Execute ==
    /\ alive
    /\ \E block \in InputBlocks, inp \in ExecInputs(Len(self._children)) :
         LET r == execute(self, env, block, -1, inp)
         IN  /\ alive' = ~r.abort
             /\ last' = Returned("execute", r, block, <<>>)
    /\ UNCHANGED <<self, ctx, env, other>>

ExecuteRuntimeFilter ==
    /\ alive
    /\ \E block \in InputBlocks, inp \in ExecInputs(Len(self._children)),
          args \in ArgBuffers :
         LET r == execute_runtime_filter(self, env, block, -1, args, inp)
         IN  /\ alive' = ~r.abort
             /\ last' = Returned("execute_runtime_filter", r, block, args)
    /\ UNCHANGED <<self, ctx, env, other>>

\* prepare of the node that equals is handed.
PrepareOther ==
    /\ alive
    /\ other.class = "VectorizedFnCall"
    /\ \E base_ok \in BOOLEAN, made \in BOOLEAN :
         LET r == prepare(other.node, ctx, env, base_ok, made)
         IN  /\ other' = CallNode(r.self)
             /\ ctx' = r.ctx
             /\ last' = [NoCall EXCEPT !.op = "prepare_other", !.status = r.status,
                                       !.noop = r.noop]
    /\ UNCHANGED <<self, env, alive>>

Equals ==
    /\ alive
    /\ \E child_eq \in ChildEquals(self, other) :
         last' = [NoCall EXCEPT !.op = "equals",
                                !.result = equals(self, other, child_eq),
                                !.child_eq = child_eq]
    /\ UNCHANGED <<self, ctx, env, alive, other>>

\* equals handed the node itself; every child equals itself.
EqualsSelf ==
    /\ alive
    /\ LET child_eq == [i \in 1..Len(self._children) |-> TRUE]
       IN  last' = [NoCall EXCEPT !.op = "equals_self",
                                  !.result = equals(self, CallNode(self), child_eq),
                                  !.child_eq = child_eq]
    /\ UNCHANGED <<self, ctx, env, alive, other>>

EstimateMemory ==
    /\ alive
    /\ \E rows \in RowCounts :
         LET r == estimate_memory(self, rows)
         IN  /\ self' = r.self
             /\ last' = [NoCall EXCEPT !.op = "estimate_memory", !.rows = rows,
                                       !.size = r.size, !.log = r.log]
    /\ UNCHANGED <<ctx, env, alive, other>>

EvaluateInvertedIndex ==
    /\ alive
    /\ \E routine \in RoutineResults :
         LET r == evaluate_inverted_index(self, env, routine)
         IN  /\ alive' = ~r.abort
             /\ last' = [NoCall EXCEPT !.op = "evaluate_inverted_index",
                                       !.status = r.status, !.log = r.log,
                                       !.routine = routine]
    /\ UNCHANGED <<self, ctx, env, other>>

CanPushDownToIndex ==
    /\ alive
    /\ \E flag \in BOOLEAN :
         LET r == can_push_down_to_index(self, flag)
         IN  /\ alive' = ~r.abort
             /\ last' = [NoCall EXCEPT !.op = "can_push_down_to_index",
                                       !.status = r.status, !.result = r.result,
                                       !.flag = flag]
    /\ UNCHANGED <<self, ctx, env, other>>

Next ==
    \/ Prepare
    \/ Open
    \/ Close
    \/ Execute
    \/ ExecuteRuntimeFilter
    \/ EstimateMemory
    \/ EvaluateInvertedIndex
    \/ CanPushDownToIndex

Spec == Init /\ [][Next]_vars

SpecBind == InitBind /\ [][Next]_vars

\* Equality: two nodes built independently, each prepared or not, compared.
InitEquals ==
    /\ \E d \in ExecDescriptors, ch \in SeqsUpTo(ChildKinds, MaxChildren),
          b \in {"debug", "release"} :
         /\ self = NewNode(d, ch, FALSE)
         /\ env = [enable_java_support |-> d.java, build |-> b]
    /\ other \in {Literal}
                  \cup {CallNode(NewNode(d, ch, FALSE)) :
                           d \in ExecDescriptors, ch \in SeqsUpTo(ChildKinds, MaxChildren)}
    /\ ctx = [fn_contexts |-> <<>>]
    /\ alive = TRUE
    /\ last = NoCall

NextEquals ==
    \/ Prepare
    \/ PrepareOther
    \/ Equals
    \/ EqualsSelf

SpecEquals == InitEquals /\ [][NextEquals]_vars

\* ================================================================= claims
ExecOps == {"execute", "execute_runtime_filter"}

PrepareFailed == last.op = "prepare" /\ last.status # OK
PrepareSucceeded == last.op = "prepare" /\ last.status = OK

\* Names that end with "_state", listed by hand.
NamesWithSuffix == {NAME_SUM_STATE, NAME_SUFFIX_ONLY}

\* ---- C1
\* C1: in every reachable state the bound function is non-null iff the node
\* is prepared; right after any prepare call the node is prepared iff that
\* call returned success; and a node becomes prepared only in a prepare call
\* that returns success.
C1_BoundIffPreparedState ==
    /\ (self._function # NULL) <=> self._prepare_finished
    /\ last.op = "prepare" => ((last.status = OK) <=> self._prepare_finished)

C1_BoundIffPrepared ==
    /\ []C1_BoundIffPreparedState
    /\ [][(self'._prepare_finished # self._prepare_finished)
            => (self'._prepare_finished /\ last'.op = "prepare" /\ last'.status = OK)]_vars

\* a prepare bound a function and marked the node prepared
C1_Witness ==
    /\ PrepareSucceeded /\ ~last.noop
    /\ self._prepare_finished /\ self._function # NULL

\* ---- C2
\* C2: prepare on a node that is already prepared returns success and
\* changes nothing: not the bound function, not the context slots, not the
\* dictionary hook, not the display name.
C2_PrepareIdempotent ==
    [][(last'.op = "prepare" /\ self._prepare_finished)
         => (last'.status = OK /\ last'.noop /\ self' = self /\ ctx' = ctx)]_vars

\* a second prepare on a prepared node whose slot holds the dictionary hook
C2_Witness ==
    /\ PrepareSucceeded /\ last.noop
    /\ Len(ctx.fn_contexts) = 1
    /\ ctx.fn_contexts[1].dict_sets = 1
    /\ self._expr_name # <<>>

\* ---- C3
AggReturnTypeErrors ==
    {"State function's return type must be not nullable",
     "State function's return type must be agg_state",
     "Function is not endwith '_state'", "child prepare failed"}

BadAggReturnType ==
    /\ self._fn.binary_type = "AGG_STATE"
    /\ (self._data_type.nullable \/ self._data_type.primitive_type # "TYPE_AGG_STATE")

\* C3: a state-merge function whose return type is nullable or not the
\* aggregate-state type never gets bound, whatever its name: every prepare on
\* it fails, no function is bound and the node stays unprepared.
C3_AggStateReturnType ==
    BadAggReturnType =>
        /\ self._function = NULL
        /\ ~self._prepare_finished
        /\ last.op = "prepare" => last.status \in AggReturnTypeErrors

\* a prepare of "sum_state" (suffix present) with a bad return type failed
C3_Witness ==
    /\ BadAggReturnType
    /\ self._fn.function_name = NAME_SUM_STATE
    /\ PrepareFailed
    /\ last.status \in {"State function's return type must be not nullable",
                        "State function's return type must be agg_state"}

\* ---- C4
\* C4: a state-merge function whose name does not end with "_state" never
\* gets bound, even with a valid return type; the state-merge executable is
\* bound only for a name with the suffix and a non-nullable aggregate-state
\* return type.
C4_AggStateSuffix ==
    /\ (self._fn.binary_type = "AGG_STATE"
        /\ self._fn.function_name \notin NamesWithSuffix)
       => /\ self._function = NULL
          /\ ~self._prepare_finished
          /\ last.op = "prepare"
               => last.status \in {"Function is not endwith '_state'",
                                   "child prepare failed"}
    /\ self._function = "FunctionAggState"
       => /\ self._fn.binary_type = "AGG_STATE"
          /\ self._fn.function_name \in NamesWithSuffix
          /\ self._data_type = TypeAggState

\* a prepare of a name without the suffix and a valid return type failed
\* on the suffix
C4_Witness ==
    /\ self._fn.binary_type = "AGG_STATE"
    /\ self._fn.function_name \notin NamesWithSuffix
    /\ self._data_type = TypeAggState
    /\ last.op = "prepare"
    /\ last.status = "Function is not endwith '_state'"

\* ---- C5
JavaExecutable == IF self._fn.is_udtf_function THEN "FunctionFake" ELSE "JavaFunctionCall"

\* C5: for a JAVA_UDF function, with enable_java_support off every prepare
\* fails and binds nothing (UDTF or not); with it on, a prepare that succeeds
\* has bound the fake function for a UDTF and the Java function otherwise.
C5_JavaUdf ==
    self._fn.binary_type = "JAVA_UDF" =>
        /\ ~env.enable_java_support
             => /\ self._function = NULL
                /\ ~self._prepare_finished
                /\ last.op = "prepare"
                     => last.status \in {"Java UDF is not enabled",
                                         "child prepare failed"}
        /\ env.enable_java_support
             => /\ self._function \in {NULL, JavaExecutable}
                /\ PrepareSucceeded => self._function = JavaExecutable

\* a UDTF prepare failed on the config flag
C5_Witness ==
    /\ self._fn.binary_type = "JAVA_UDF"
    /\ self._fn.is_udtf_function
    /\ ~env.enable_java_support
    /\ last.op = "prepare"
    /\ last.status = "Java UDF is not enabled"

\* ---- C6
\* C6: a prepare that leaves no executable bound fails, whatever the backend
\* kind; after a failing prepare the node holds no context slot, the context
\* has no slot (and so no dictionary hook) of it, and the node is not marked
\* prepared.
C6_FailedPrepare ==
    /\ (last.op = "prepare" /\ self._function = NULL) => last.status # OK
    /\ PrepareFailed
         => /\ self._fn_context_index = -1
            /\ ctx.fn_contexts = <<>>
            /\ ~self._prepare_finished

\* a native lookup (with a dictionary hook to install) found nothing
C6_Witness ==
    /\ self._fn.binary_type = "NATIVE"
    /\ self._fn.dict_isset
    /\ last.op = "prepare"
    /\ last.status = "Could not find function"

\* ---- C7
IsChildStep(entry) == entry[1] = "child"
IsFunctionStep(entry) == entry[1] = "function"
IsOpenChildStep(entry) == entry[1] = "open_child"
IsDebugStep(entry) == entry[1] \in {"debug", "sleep"}
IsNotDebugStep(entry) == ~IsDebugStep(entry)

ConstantCached == self.is_constant /\ self._constant_col # NULL

C7_ShortCircuit ==
    (last.op \in ExecOps /\ ConstantCached) =>
        /\ last.status = OK
        /\ SelectSeq(last.log, IsChildStep) = <<>>
        /\ SelectSeq(last.log, IsFunctionStep) = <<>>
        /\ last.fn_calls = <<>>
        /\ last.block = Append(last.block_in, self._constant_col)
        /\ last.result_column_id = Len(last.block_in)

\* C7: once open has cached the constant column, the cache never changes,
\* and every execute and execute_runtime_filter executes no child, invokes no
\* bound function and returns the block with that cached column appended.
C7_ConstantShortCircuit ==
    /\ []C7_ShortCircuit
    /\ [][(self._constant_col # NULL)
            => (self'._constant_col = self._constant_col
                /\ self'.is_constant = self.is_constant)]_vars
    /\ [][(self._constant_col = NULL /\ self'._constant_col # NULL)
            => (last'.op = "open" /\ last'.scope = "FRAGMENT_LOCAL"
                /\ last'.status = OK)]_vars

\* execute_runtime_filter on a node with children whose constant "v2" was
\* cached by open
C7_Witness ==
    /\ last.op = "execute_runtime_filter"
    /\ ConstantCached
    /\ self._constant_col = <<"const", "v2">>
    /\ self._children # <<>>
    /\ last.block_in # <<>>

\* ---- C8
ExprChildrenBefore(i) == Cardinality({j \in 1..(i - 1) : self._children[j] = "expr"})

\* The column index child i returns: a slot reference the position of its
\* column, an expression child the column it appends.
ExpectedArgs ==
    [i \in 1..Len(self._children) |->
        IF self._children[i] = "slot_ref" THEN 0
        ELSE Len(last.block_in) + ExprChildrenBefore(i)]

ColumnsBeforeResult == Len(last.block_in) + ExprChildrenBefore(Len(self._children) + 1)

GeneralSuccess == last.op \in ExecOps /\ last.path = "general" /\ last.status = OK

\* C8: a successful general-path execute runs every child once in child
\* order, then appends one result column, then invokes the bound function
\* once with the children's column indices and the result column's index, and
\* returns that index: the number of columns the block held just before the
\* result column was appended.
C8_GeneralPath ==
    GeneralSuccess =>
        /\ SelectSeq(last.log, IsNotDebugStep)
             = [i \in 1..Len(self._children) |-> <<"child", i, TRUE>>]
               \o <<<<"check_constant">>, <<"insert">>, <<"function">>,
                    <<"write_result">>, <<"check_type">>>>
        /\ Len(last.block) = ColumnsBeforeResult + 1
        /\ last.block[Len(last.block)] = <<"result", "filled">>
        /\ Len(last.fn_calls) = 1
        /\ last.fn_calls[1].args = ExpectedArgs
        /\ last.fn_calls[1].result = ColumnsBeforeResult
        /\ last.result_column_id = ColumnsBeforeResult

\* two children, the first an expression child that appended a column to a
\* non-empty block, so the result index differs from the incoming column count
C8_Witness ==
    /\ GeneralSuccess
    /\ Len(self._children) = 2
    /\ self._children[1] = "expr"
    /\ last.block_in # <<>>
    /\ last.result_column_id > Len(last.block_in)

\* ---- C9
FunctionContextOpen ==
    /\ self._fn_context_index # -1
    /\ ctx.fn_contexts[self._fn_context_index + 1].state = "open"

\* C9: the node is opened only if prepared, and the bound function is
\* invoked by execute only while the node is opened and not closed; calls
\* made out of order never reach the bound function.
C9_LifecycleEnforced ==
    /\ self._open_finished => self._prepare_finished
    /\ (last.op \in ExecOps /\ last.fn_calls # <<>>)
         => (self._open_finished /\ FunctionContextOpen)

\* ---- C10
C10_OpenOrder ==
    (last.op = "open" /\ last.status # "DCHECK") =>
        LET opens == SelectSeq(last.log, IsOpenChildStep)
        IN  /\ \A i \in 1..Len(opens) : opens[i][2] = i
            /\ \A i \in 1..Len(last.log) :
                 /\ last.log[i] = <<"init_function_context">>
                      => /\ i = Len(opens) + 1
                         /\ opens = [k \in 1..Len(self._children) |->
                                        <<"open_child", k, TRUE>>]
                 /\ (IsOpenChildStep(last.log[i]) /\ ~last.log[i][3])
                      => /\ i = Len(last.log)
                         /\ last.status = "child open failed"
            /\ last.status = OK
                 => /\ self._open_finished
                    /\ Len(opens) = Len(self._children)
                    /\ <<"init_function_context">> \in Range(last.log)

\* C10: open opens the children in child order before it initializes the
\* function context; a child's failure ends open at once with that error,
\* with no further child opened, the function context untouched and the
\* opened flag unchanged; the node becomes opened only in an open that
\* succeeded in every step.
C10_OpenChildrenFirst ==
    /\ []C10_OpenOrder
    /\ [][(last'.op = "open" /\ last'.status # OK)
            => /\ self'._open_finished = self._open_finished
               /\ last'.status = "child open failed" => ctx' = ctx]_vars
    /\ [][(self'._open_finished # self._open_finished)
            => (self'._open_finished /\ last'.op = "open" /\ last'.status = OK)]_vars

\* the second of two children failed to open on a prepared node
C10_Witness ==
    /\ last.op = "open"
    /\ last.status = "child open failed"
    /\ last.log = <<<<"open_child", 1, TRUE>>, <<"open_child", 2, FALSE>>>>
    /\ self._prepare_finished
    /\ ~self._open_finished

\* ---- C11
ConstColAttempted == <<"get_const_col">> \in Range(last.log)

C11_ScopeDecides ==
    /\ last.op = "open" =>
         /\ ConstColAttempted => last.scope = "FRAGMENT_LOCAL"
         /\ (last.scope = "FRAGMENT_LOCAL" /\ last.status = OK) =>
              /\ ConstColAttempted
              /\ self.is_constant => self._constant_col # NULL
         /\ last.scope # "FRAGMENT_LOCAL" =>
              /\ SelectSeq(last.log, IsChildStep) = <<>>
              /\ SelectSeq(last.log, IsFunctionStep) = <<>>
              /\ last.fn_calls = <<>>
    /\ (last.op \in ExecOps /\ self._constant_col = NULL) => last.path # "const"

\* C11: open goes on to materialize the constant column exactly when its
\* scope is FRAGMENT_LOCAL; an open with another scope executes nothing and
\* leaves the cache as it was, and a node without a cached constant never
\* answers execute from the cache; when the materialization fails open
\* returns that error and neither the cache nor the opened flag changes.
C11_FragmentLocalConstant ==
    /\ []C11_ScopeDecides
    /\ [][(last'.op = "open" /\ last'.scope # "FRAGMENT_LOCAL")
            => self'._constant_col = self._constant_col]_vars
    /\ [][(last'.op = "open" /\ <<"get_const_col">> \in Range(last'.log)
             /\ last'.status # OK)
            => /\ self'._constant_col = self._constant_col
               /\ self'._open_finished = self._open_finished]_vars

\* a FRAGMENT_LOCAL open of a constant node whose bound function failed
\* while the constant was materialized
C11_Witness ==
    /\ last.op = "open"
    /\ last.scope = "FRAGMENT_LOCAL"
    /\ ConstColAttempted
    /\ last.status = "function execute failed"
    /\ self.is_constant
    /\ self._constant_col = NULL
    /\ ~self._open_finished

\* ---- C12
ClosedTwice ==
    LET once == close(self, ctx)
        twice == close(once.self, once.ctx)
    IN  /\ twice.self = once.self
        /\ twice.ctx = once.ctx

C12_CloseOrder ==
    /\ last.op = "close" =>
         /\ last.log = <<<<"close_function_context">>>>
                         \o [i \in 1..Len(self._children) |-> <<"close_child", i>>]
         /\ last.status = OK
         /\ alive
         /\ self._fn_context_index # -1
              => ctx.fn_contexts[self._fn_context_index + 1].state = "closed"
    /\ ClosedTwice

\* C12: close releases the function's state of the node's slot first and
\* then closes every child in order; it reports nothing and ends no process
\* in any lifecycle state, leaves the node's own fields alone, and a second
\* close changes neither the node nor the context.
C12_CloseIdempotent ==
    /\ []C12_CloseOrder
    /\ [][last'.op = "close" => (self' = self /\ alive' = alive)]_vars
    /\ [][(last.op = "close" /\ last'.op = "close") => (ctx' = ctx /\ last'.noop)]_vars

\* a second close in a row on an opened node with two children
C12_Witness ==
    /\ last.op = "close"
    /\ last.noop
    /\ self._open_finished
    /\ Len(self._children) = 2
    /\ ctx.fn_contexts[self._fn_context_index + 1].state = "closed"

\* ---- C13
IsResultColumn(column) == column[1] = "result"

NoResultColumn ==
    /\ <<"insert">> \notin Range(last.log)
    /\ SelectSeq(last.block, IsResultColumn) = <<>>

FunctionNotInvoked ==
    /\ SelectSeq(last.log, IsFunctionStep) = <<>>
    /\ last.fn_calls = <<>>

\* C13: in execute and execute_runtime_filter a failing child ends the call
\* with the child's error, with no later child executed, no result column
\* appended and the bound function not invoked; a failing constant-ness
\* check ends it after every child ran, again with no result column and no
\* invocation; a failing bound function ends it with the function's error
\* after exactly one invocation; and no call invokes the function twice.
C13_ErrorsPropagate ==
    last.op \in ExecOps =>
        /\ \A i \in 1..Len(last.log) :
             (IsChildStep(last.log[i]) /\ ~last.log[i][3]) =>
                 /\ i = Len(last.log)
                 /\ last.status = "child execute failed"
                 /\ NoResultColumn
                 /\ FunctionNotInvoked
        /\ last.status = "child execute failed" =>
             /\ last.log # <<>>
             /\ IsChildStep(last.log[Len(last.log)])
             /\ ~last.log[Len(last.log)][3]
        /\ last.status = "const check failed" =>
             /\ SelectSeq(last.log, IsNotDebugStep)
                  = [i \in 1..Len(self._children) |-> <<"child", i, TRUE>>]
                    \o <<<<"check_constant">>>>
             /\ NoResultColumn
             /\ FunctionNotInvoked
        /\ last.status = "function execute failed" =>
             /\ Len(last.fn_calls) = 1
             /\ Len(SelectSeq(last.log, IsFunctionStep)) = 1
             /\ last.log[Len(last.log)] = <<"function">>
        /\ Len(last.fn_calls) <= 1
        /\ Len(SelectSeq(last.log, IsFunctionStep)) <= 1

\* the first of two children failed: the second never ran
C13_Witness ==
    /\ last.op = "execute"
    /\ Len(self._children) = 2
    /\ last.log = <<<<"child", 1, FALSE>>>>
    /\ last.status = "child execute failed"
    /\ self._open_finished

\* ---- C14
\* Buffers as a caller may have left them: every length up to one more than
\* the node has children, holding stale indices.
StaleBuffers == {[k \in 1..len |-> v] : len \in 0..(MaxChildren + 1), v \in {0, 9}}

SameOutcome(e, f) ==
    /\ e.status = f.status
    /\ e.abort = f.abort
    /\ e.result_column_id = f.result_column_id
    /\ e.block = f.block
    /\ e.log = f.log
    /\ e.fn_calls = f.fn_calls

\* The comparison reads the node and the build only, which no execute
\* changes: it is made once per node state, where construction or a prepare,
\* open or close left it.
EntryPointsAgree ==
    last.op \notin ExecOps =>
    \A block \in InputBlocks, inp \in ExecInputs(Len(self._children)) :
        LET e == execute(self, env, block, -1, inp)
        IN  \A args \in StaleBuffers :
                SameOutcome(e, execute_runtime_filter(self, env, block, -1, args, inp))

ChildReturned(i) == <<"child", i, TRUE>> \in Range(last.log)

\* C14: from the same node state, block and collaborator outcomes, execute
\* and execute_runtime_filter return the same status, result index and block
\* and make the same calls, whatever the caller's buffer held; after a
\* general-path run the buffer has one entry per child, and entry i is the
\* column index child i returned, for every child that returned one.
C14_SameAlgorithm ==
    /\ EntryPointsAgree
    /\ (last.op \in ExecOps /\ last.path = "general") =>
         /\ Len(last.args) = Len(self._children)
         /\ \A i \in 1..Len(self._children) :
              ChildReturned(i) => last.args[i] = ExpectedArgs[i]

\* execute_runtime_filter succeeded on a buffer longer than the node has
\* children, holding indices that are not the children's
C14_Witness ==
    /\ last.op = "execute_runtime_filter"
    /\ GeneralSuccess
    /\ Len(self._children) >= 1
    /\ Len(last.args_in) > Len(self._children)
    /\ last.args = ExpectedArgs
    /\ last.args[1] # last.args_in[1]

\* ---- C15
SameDescriptorName ==
    self._fn.function_name = other.node._fn.function_name

\* C15: equals returns true exactly when the other expression is a call
\* node whose descriptor names the same function, with as many children,
\* each equal to the corresponding child; a node equals itself; and this in
\* every lifecycle state of the two nodes.
C15_EqualsIff ==
    /\ last.op = "equals" =>
         (last.result <=>
             /\ other.class = "VectorizedFnCall"
             /\ SameDescriptorName
             /\ Len(other.node._children) = Len(self._children)
             /\ \A i \in 1..Len(self._children) : last.child_eq[i])
    /\ last.op = "equals_self" => last.result

\* ---- C16
\* The estimate in unbounded arithmetic.
ExactEstimate(rows) ==
    IF ConstantCached THEN 0
    ELSE Cardinality({i \in 1..Len(self._children) : self._children[i] = "expr"}) * rows
         + rows * (IF self._data_type.primitive_type = "TYPE_INT"
                   THEN 4 ELSE ESTIMATED_VALUE_SIZE)

\* C16: estimate_memory returns 0 for a constant node that has its cached
\* column and otherwise the children's estimates plus rows times the
\* per-value size; at 0 rows it is 0; and in one node state a larger row
\* count never gets a smaller estimate, also in size_t arithmetic.
C16_EstimateMonotonic ==
    last.op = "estimate_memory" =>
        /\ last.size = ExactEstimate(last.rows)
        /\ last.rows = 0 => last.size = 0
        /\ \A rows1 \in RowCounts :
             rows1 <= last.rows => estimate_memory(self, rows1).size <= last.size

\* ---- C17
ForwardedToFunction == <<"function_evaluate_inverted_index">> \in Range(last.log)

\* C17: evaluate_inverted_index on a node without children never reaches
\* the bound function's routine and returns no status to its caller; with
\* a child and a bound function it returns the routine's status unchanged;
\* and can_push_down_to_index returns the bound function's flag.
C17_IndexPrecondition ==
    /\ last.op = "evaluate_inverted_index" =>
         /\ self._children = <<>> => (~ForwardedToFunction /\ ~alive)
         /\ (self._children # <<>> /\ self._function # NULL) =>
              (ForwardedToFunction /\ last.status = last.routine /\ alive)
    /\ (last.op = "can_push_down_to_index" /\ self._function # NULL) =>
         (last.result = last.flag /\ alive)

\* ---- C18
IsGeneralStep(entry) == entry[1] \in {"child", "insert"}

\* C18 as stated: in execute no fault-injection hook, forced error or
\* injected delay, acts on the constant or the fast path, and each acts
\* before any child is executed and before the result column is appended.
C18_HooksBeforeGeneral ==
    last.op \in ExecOps =>
        /\ last.path \in {"const", "fast"} => SelectSeq(last.log, IsDebugStep) = <<>>
        /\ \A i \in 1..Len(last.log), j \in 1..Len(last.log) :
             (IsDebugStep(last.log[i]) /\ IsGeneralStep(last.log[j])) => i < j

\* C18, amended: the forced-error hook acts first on the per-block path,
\* before any child and before the result column, and forces its error
\* only over a slot-reference first child, leaving the block and the result
\* index alone; the injected delay comes after every child has executed and
\* the result column is appended, immediately before the bound function is
\* invoked; neither acts on the constant or the fast path.
C18_HookPlacement ==
    last.op \in ExecOps =>
        /\ last.path \in {"const", "fast"} => SelectSeq(last.log, IsDebugStep) = <<>>
        /\ \A i \in 1..Len(last.log) :
             /\ last.log[i] = <<"debug">> => i = 1
             /\ last.log[i] = <<"sleep">> =>
                  /\ i > 1 /\ last.log[i - 1] = <<"insert">>
                  /\ i < Len(last.log) /\ last.log[i + 1] = <<"function">>
                  /\ SelectSeq(SubSeq(last.log, 1, i), IsChildStep)
                       = [k \in 1..Len(self._children) |-> <<"child", k, TRUE>>]
        /\ last.status = "column should in slow path" =>
             /\ last.log = <<<<"debug">>>>
             /\ self._children[1] = "slot_ref"
             /\ last.block = last.block_in
             /\ last.result_column_id = -1
             /\ last.fn_calls = <<>>

\* the delay was injected in a successful run over two children: both had
\* executed and the result column was in the block
C18_Witness ==
    /\ GeneralSuccess
    /\ Len(self._children) = 2
    /\ last.log = <<<<"child", 1, TRUE>>, <<"child", 2, TRUE>>, <<"check_constant">>,
                    <<"insert">>, <<"sleep">>, <<"function">>, <<"write_result">>,
                    <<"check_type">>>>

\* ---- C19
C19_NothingExecuted ==
    last.op = "estimate_memory" =>
        /\ SelectSeq(last.log, IsChildStep) = <<>>
        /\ SelectSeq(last.log, IsFunctionStep) = <<>>
        /\ last.fn_calls = <<>>

\* C19: estimate_memory, in every lifecycle state and for every row count,
\* executes no child and invokes no bound function, and leaves the node
\* (flags, bound function, cached constant, names, children), the context
\* and the process as they were.
C19_EstimatePure ==
    /\ []C19_NothingExecuted
    /\ [][last'.op = "estimate_memory"
            => (self' = self /\ ctx' = ctx /\ env' = env /\ alive' = alive)]_vars

\* an estimate on an opened node with two children, for a row count above 0
C19_Witness ==
    /\ last.op = "estimate_memory"
    /\ self._open_finished
    /\ Len(self._children) = 2
    /\ last.rows > 0
    /\ last.size > 0

\* ---- C20
\* The block holds what came in, then the expression children's columns,
\* then the result column.
BlockKeepsAppended ==
    /\ Len(last.block) = ColumnsBeforeResult + 1
    /\ SubSeq(last.block, 1, Len(last.block_in)) = last.block_in
    /\ \A k \in (Len(last.block_in) + 1)..ColumnsBeforeResult :
         last.block[k][1] = "child"
    /\ IsResultColumn(last.block[Len(last.block)])

\* C20: when the bound function fails the caller's result index is left as
\* it was, while the block keeps the children's columns and the result
\* column; when only the final validation of the block fails the result
\* index already holds the result column's position.
C20_PartialEffects ==
    last.op \in ExecOps =>
        /\ last.status = "function execute failed" =>
             /\ last.result_column_id = -1
             /\ BlockKeepsAppended
        /\ last.status = "check_type_and_column failed" =>
             /\ last.result_column_id = ColumnsBeforeResult
             /\ BlockKeepsAppended

\* the bound function failed after an expression child had appended its
\* column
C20_Witness ==
    /\ last.op \in ExecOps
    /\ last.status = "function execute failed"
    /\ Len(self._children) = 2
    /\ self._children[1] = "expr"
    /\ last.block_in # <<>>
    /\ Len(last.block) > Len(last.block_in) + 1
    /\ last.result_column_id = -1

====
